---- MODULE Spec2Model ----
(***************************************************************************)
(* Hackathon registration backend (Express handlers over Mongoose models). *)
(*                                                                         *)
(* The record store is modelled as two collections.  Every request handler *)
(* is a sequence of steps, one step per awaited store operation; the code  *)
(* that runs synchronously after an await belongs to the step of that      *)
(* await.  A request slot p runs one request at a time; several slots run  *)
(* requests concurrently, as the Node event loop interleaves handlers at   *)
(* their awaits.                                                           *)
(*                                                                         *)
(* Time is counted in days: the 24h of the cancellation rule is one unit.  *)
(* An optional value is a sequence of length 0 (absent) or 1 (present).    *)
(* document.save() of an existing document writes only the paths whose     *)
(* value was changed in memory (Mongoose sends a $set of modified paths).  *)
(***************************************************************************)
EXTENDS Integers, Sequences, FiniteSets, TLC

VARIABLES hackathons, registrations, now, pc, req, doc, hackathon, fresh,
          modified, resp

vars == <<hackathons, registrations, now, pc, req, doc, hackathon, fresh,
          modified, resp>>

(* ------------------------------ bounds --------------------------------- *)

MaxTime == 3
NumUsers == 1
MaxTeamMembers == 2

(* --------------------------- program constants ------------------------- *)

\* 24 * 60 * 60 * 1000 ms, in days
CancellationWindow == 1

(* ------------------------------ identities ----------------------------- *)

Procs == {1, 2}
SeqProcs == {1}
HackathonIds == {"h1"}
\* the ids the store gives to hackathons: those present at the start and
\* the one a create or draft request adds
AllHackathonIds == HackathonIds \cup {"h2"}
Organizer == 0
Registrants == 1..NumUsers
Users == {Organizer} \cup Registrants
\* room for one document more than the unique index admits
MaxRegs == NumUsers + 1
RegIds == 1..MaxRegs

Absent == << >>
Some(v) == <<v>>
IsSet(o) == o # << >>
OrElse(o, d) == IF o = << >> THEN d ELSE o[1]

(* ------------------------- hackathon model ----------------------------- *)

RECURSIVE SumWeights(_)
SumWeights(s) == IF s = << >> THEN 0 ELSE Head(s) + SumWeights(Tail(s))

\* hackathonSchema.pre('save')
HackathonPreSave(h) ==
  IF h.startDate >= h.endDate THEN "End date must be after start date"
  ELSE IF h.registrationDeadline >= h.startDate
    THEN "Registration deadline must be before start date"
  ELSE IF h.teamSizeMin > h.teamSizeMax
    THEN "Minimum team size cannot be greater than maximum team size"
  ELSE IF Len(h.judgingCriteria) > 0 /\ SumWeights(h.judgingCriteria) # 100
    THEN "Judging criteria weights must sum to 100"
  ELSE "ok"

canRegister_Inclusive(h, t) ==
  /\ t <= h.registrationDeadline
  /\ h.registrationCount <= h.maxParticipants
  /\ h.status = "published"

\* hackathonSchema.methods.canRegister
canRegister(h, t) ==
  /\ t <= h.registrationDeadline
  /\ h.registrationCount < h.maxParticipants
  /\ h.status = "published"

\* Hackathon.findById
findHackathonById(id) ==
  IF id \in DOMAIN hackathons THEN Some(hackathons[id]) ELSE Absent

(* ------------------------ registration model --------------------------- *)

\* virtual teamSize / the computation in pre('save')
teamSize(r) == IF r.participationType = "solo" THEN 1 ELSE r.teamMembers + 1

\* teamName.trim() === ''
Blank(s) == s \in {"", " "}

TeamSizeOutOfBounds_UpperOnly(r, h) == teamSize(r) > h.teamSizeMax

\* teamSize < hackathon.teamSizeMin || teamSize > hackathon.teamSizeMax
TeamSizeOutOfBounds(r, h) ==
  teamSize(r) < h.teamSizeMin \/ teamSize(r) > h.teamSizeMax

\* hackathonRegistrationSchema.pre('save'); hs is the result of the hook's
\* Hackathon.findById, consulted only for a new document
RegistrationPreSave(r, isNew, hs, t) ==
  IF r.participationType = "team" /\ (r.teamName = "" \/ Blank(r.teamName))
    THEN "Team name is required for team participation"
  ELSE IF r.participationType = "team" /\ r.teamMembers = 0
    THEN "At least one team member is required for team participation"
  ELSE IF isNew /\ hs = Absent THEN "Hackathon not found"
  ELSE IF isNew /\ ~canRegister(hs[1], t)
    THEN "Registration is not available for this hackathon"
  ELSE IF isNew /\ TeamSizeOutOfBounds(r, hs[1])
    THEN "Team size must be between teamSizeMin and teamSizeMax members"
  ELSE IF ~r.agreeToTerms \/ ~r.agreeToCodeOfConduct
    THEN "Must agree to terms and conditions and code of conduct"
  ELSE "ok"

RegIdsOf(h, u) ==
  {i \in DOMAIN registrations :
     registrations[i].hackathon = h /\ registrations[i].user = u}

UniqueIndexAllows_NoIndex(regs, h, u) == TRUE

\* index({ hackathon: 1, user: 1 }, { unique: true }): may a document with
\* this key be added to regs
UniqueIndexAllows(regs, h, u) ==
  ~\E i \in DOMAIN regs : regs[i].hackathon = h /\ regs[i].user = u

countAll(regs, h) ==
  Cardinality({i \in DOMAIN regs : regs[i].hackathon = h})

\* Registration.countDocuments({ hackathon, status: { $ne: 'cancelled' } })
countNonCancelled(regs, h) ==
  Cardinality({i \in DOMAIN regs :
                 regs[i].hackathon = h /\ regs[i].status # "cancelled"})

(* ------------------------- requests and replies ------------------------ *)

\* a request body: every field optional
NoBody ==
  [status |-> Absent, participationType |-> Absent, teamName |-> Absent,
   teamMembers |-> Absent, agreeToTerms |-> Absent,
   agreeToCodeOfConduct |-> Absent, checkedIn |-> Absent,
   checkInTime |-> Absent, projectSubmitted |-> Absent,
   projectDetails |-> Absent, title |-> Absent]

Consent ==
  [NoBody EXCEPT !.agreeToTerms = Some(TRUE), !.agreeToCodeOfConduct = Some(TRUE)]

TeamOf(name, n) ==
  [Consent EXCEPT !.participationType = Some("team"), !.teamName = Some(name),
                  !.teamMembers = Some(n)]

\* bodies of POST /:id/register
PlainRegisterBodies == {Consent}

RegisterBodies ==
  { Consent,
    TeamOf("Foo", 1), TeamOf("Foo", MaxTeamMembers), TeamOf(" ", 1), TeamOf("Foo", 0),
    [NoBody EXCEPT !.agreeToTerms = Some(TRUE)],
    [Consent EXCEPT !.checkedIn = Some(TRUE)],
    [Consent EXCEPT !.status = Some("pending")] }

\* bodies of PUT /registrations/:regId
UpdateBodies ==
  { [NoBody EXCEPT !.status = Some("cancelled")],
    [NoBody EXCEPT !.status = Some("pending")],
    [NoBody EXCEPT !.checkedIn = Some(TRUE)],
    [NoBody EXCEPT !.agreeToTerms = Some(FALSE)],
    [NoBody EXCEPT !.participationType = Some("team"), !.teamName = Some("Foo"),
                   !.teamMembers = Some(MaxTeamMembers)] }

\* bodies of POST /registrations/:regId/submit
SubmitBodies ==
  { [NoBody EXCEPT !.title = Some("demo")], [NoBody EXCEPT !.title = Some("final")] }

ReqHackathonIds == HackathonIds \cup {"hx"}

\* a body of the hackathon routes: every field optional
NoHackathonBody ==
  [startDate |-> Absent, endDate |-> Absent, registrationDeadline |-> Absent,
   teamSizeMin |-> Absent, teamSizeMax |-> Absent, maxParticipants |-> Absent,
   judgingCriteria |-> Absent, isPublished |-> Absent, status |-> Absent]

NoReq == [op |-> "none", user |-> Organizer, role |-> "user", hid |-> "h1",
          rid |-> 0, body |-> NoBody, hbody |-> NoHackathonBody]

Reply(code, msg) == [status |-> code, message |-> msg, error |-> "", stats |-> Absent]
\* the catch block of a handler: res.status(500).json({ message, error })
Failure(msg, err) == [status |-> 500, message |-> msg, error |-> err, stats |-> Absent]
NoReply == Reply(0, "")

(* --------------------------- documents in memory ----------------------- *)

NoHackathon ==
  [createdBy |-> Organizer, status |-> "draft", startDate |-> 0, endDate |-> 0,
   registrationDeadline |-> 0, teamSizeMin |-> 0, teamSizeMax |-> 0,
   maxParticipants |-> 0, registrationCount |-> 0, judgingCriteria |-> << >>]

NoRegistration ==
  [id |-> 0, hackathon |-> "h1", user |-> Organizer, status |-> "pending",
   participationType |-> "solo", teamName |-> "", teamMembers |-> 0,
   agreeToTerms |-> FALSE, agreeToCodeOfConduct |-> FALSE,
   checkedIn |-> FALSE, checkInTime |-> Absent,
   projectSubmitted |-> FALSE, projectDetails |-> Absent]

NewRegistration_BodyStatus(body, h, u) ==
  [id |-> 0, hackathon |-> h, user |-> u, status |-> OrElse(body.status, "confirmed"),
   participationType |-> OrElse(body.participationType, "solo"),
   teamName |-> OrElse(body.teamName, ""),
   teamMembers |-> OrElse(body.teamMembers, 0),
   agreeToTerms |-> OrElse(body.agreeToTerms, FALSE),
   agreeToCodeOfConduct |-> OrElse(body.agreeToCodeOfConduct, FALSE),
   checkedIn |-> OrElse(body.checkedIn, FALSE),
   checkInTime |-> body.checkInTime,
   projectSubmitted |-> OrElse(body.projectSubmitted, FALSE),
   projectDetails |-> body.projectDetails]

\* new HackathonRegistration({ ...req.body, hackathon, user, status: 'confirmed' })
\* with the schema defaults for the fields the body leaves out
NewRegistration(body, h, u) ==
  [id |-> 0, hackathon |-> h, user |-> u, status |-> "confirmed",
   participationType |-> OrElse(body.participationType, "solo"),
   teamName |-> OrElse(body.teamName, ""),
   teamMembers |-> OrElse(body.teamMembers, 0),
   agreeToTerms |-> OrElse(body.agreeToTerms, FALSE),
   agreeToCodeOfConduct |-> OrElse(body.agreeToCodeOfConduct, FALSE),
   checkedIn |-> OrElse(body.checkedIn, FALSE),
   checkInTime |-> body.checkInTime,
   projectSubmitted |-> OrElse(body.projectSubmitted, FALSE),
   projectDetails |-> body.projectDetails]

\* the stored form of a document (the store assigns _id at insert)
Stored(r) ==
  [hackathon |-> r.hackathon, user |-> r.user, status |-> r.status,
   participationType |-> r.participationType, teamName |-> r.teamName,
   teamMembers |-> r.teamMembers, agreeToTerms |-> r.agreeToTerms,
   agreeToCodeOfConduct |-> r.agreeToCodeOfConduct,
   checkedIn |-> r.checkedIn, checkInTime |-> r.checkInTime,
   projectSubmitted |-> r.projectSubmitted, projectDetails |-> r.projectDetails]

\* HackathonRegistration.findById: the document with its _id
Loaded(i) ==
  [id |-> i, hackathon |-> registrations[i].hackathon, user |-> registrations[i].user,
   status |-> registrations[i].status,
   participationType |-> registrations[i].participationType,
   teamName |-> registrations[i].teamName,
   teamMembers |-> registrations[i].teamMembers,
   agreeToTerms |-> registrations[i].agreeToTerms,
   agreeToCodeOfConduct |-> registrations[i].agreeToCodeOfConduct,
   checkedIn |-> registrations[i].checkedIn,
   checkInTime |-> registrations[i].checkInTime,
   projectSubmitted |-> registrations[i].projectSubmitted,
   projectDetails |-> registrations[i].projectDetails]

(* ------------------------------ initial state -------------------------- *)

\* hackathons as createHackathon stores them: valid dates and sizes,
\* registrationCount at its default
InitHackathons ==
  { [createdBy |-> Organizer, status |-> s, startDate |-> 3, endDate |-> 4,
     registrationDeadline |-> 1, teamSizeMin |-> 1, teamSizeMax |-> 2,
     maxParticipants |-> m, registrationCount |-> 0, judgingCriteria |-> <<60, 40>>]
    : s \in {"draft", "published"}, m \in {1, 2} }

PublishedHackathons == {h \in InitHackathons : h.status = "published"}

\* published hackathons that differ in the smallest team they admit
TeamHackathons ==
  { [createdBy |-> Organizer, status |-> "published", startDate |-> 3, endDate |-> 4,
     registrationDeadline |-> 1, teamSizeMin |-> n, teamSizeMax |-> 2,
     maxParticipants |-> 2, registrationCount |-> 0, judgingCriteria |-> <<60, 40>>]
    : n \in {1, 2} }

InitFrom(configs) ==
  /\ hackathons \in [HackathonIds -> configs]
  /\ registrations = << >>
  /\ now = 0
  /\ pc = [p \in Procs |-> "idle"]
  /\ req = [p \in Procs |-> NoReq]
  /\ doc = [p \in Procs |-> NoRegistration]
  /\ hackathon = [p \in Procs |-> NoHackathon]
  /\ fresh = [p \in Procs |-> NoHackathon]
  /\ modified = [p \in Procs |-> FALSE]
  /\ resp = [p \in Procs |-> NoReply]

Init == InitFrom(InitHackathons)

(* ------------------------------ step helpers --------------------------- *)

\* a request r arrives at the free slot p and runs up to its first await
Accept(p, r) ==
  /\ pc[p] = "idle"
  /\ req' = [req EXCEPT ![p] = r]

Goto(p, label) == pc' = [pc EXCEPT ![p] = label]

\* the handler sends its reply; its local documents are dropped
Finish(p, r) ==
  /\ pc' = [pc EXCEPT ![p] = "done"]
  /\ resp' = [resp EXCEPT ![p] = r]
  /\ doc' = [doc EXCEPT ![p] = NoRegistration]
  /\ hackathon' = [hackathon EXCEPT ![p] = NoHackathon]
  /\ fresh' = [fresh EXCEPT ![p] = NoHackathon]
  /\ modified' = [modified EXCEPT ![p] = FALSE]

\* the reply has been delivered; the slot is free again
Respond(p) ==
  /\ pc[p] = "done"
  /\ pc' = [pc EXCEPT ![p] = "idle"]
  /\ req' = [req EXCEPT ![p] = NoReq]
  /\ resp' = [resp EXCEPT ![p] = NoReply]
  /\ UNCHANGED <<hackathons, registrations, now, doc, hackathon, fresh, modified>>

Tick ==
  /\ now < MaxTime
  /\ now' = now + 1
  /\ UNCHANGED <<hackathons, registrations, pc, req, doc, hackathon, fresh, modified, resp>>

AbortedSave_Writes(regs, d) == [regs EXCEPT ![d.id] = Stored(d)]

\* document.save() whose pre('save') hook calls next(new Error(...)): the
\* save is abandoned before anything is sent to the store
AbortedSave(regs, d) == regs

(* ------------- Hackathon.updateRegistrationCount (two awaits) ---------- *)

\* this.registrationCount = await Registration.countDocuments(...): the
\* assignment marks the path modified only when the value differs
CountInto(h, regs, id) ==
  [h EXCEPT !.registrationCount = countNonCancelled(regs, id)]

\* return this.save(), after pre('save') passed: $set of the modified path
WriteCount(hs, id, h, dirty) ==
  IF dirty /\ id \in DOMAIN hs
    THEN [hs EXCEPT ![id].registrationCount = h.registrationCount]
    ELSE hs

\* await hackathon.updateRegistrationCount() in registerForHackathon and
\* cancelRegistration, on the hackathon document the handler read earlier
UpdateCountRead(p) ==
  /\ pc[p] = "hack_count"
  /\ pc' = [pc EXCEPT ![p] = "hack_save"]
  /\ hackathon' = [hackathon EXCEPT ![p] = CountInto(hackathon[p], registrations, doc[p].hackathon)]
  /\ modified' = [modified EXCEPT
       ![p] = countNonCancelled(registrations, doc[p].hackathon) # hackathon[p].registrationCount]
  /\ UNCHANGED <<hackathons, registrations, now, req, doc, fresh, resp>>

UpdateCountSave(p) ==
  /\ pc[p] = "hack_save"
  /\ UNCHANGED <<registrations, now, req>>
  /\ IF HackathonPreSave(hackathon[p]) # "ok"
       THEN /\ Finish(p, Failure(IF req[p].op = "register"
                                   THEN "Error registering for hackathon"
                                   ELSE "Error cancelling registration",
                                 HackathonPreSave(hackathon[p])))
            /\ UNCHANGED hackathons
     ELSE IF modified[p] /\ doc[p].hackathon \notin DOMAIN hackathons
       THEN /\ Finish(p, Failure(IF req[p].op = "register"
                                   THEN "Error registering for hackathon"
                                   ELSE "Error cancelling registration",
                                 "DocumentNotFoundError"))
            /\ UNCHANGED hackathons
     ELSE /\ hackathons' = WriteCount(hackathons, doc[p].hackathon, hackathon[p], modified[p])
          /\ Finish(p, IF req[p].op = "register"
                         THEN Reply(201, "Registration successful")
                         ELSE Reply(200, "Registration cancelled successfully"))

UpdateRegistrationCount(p) == UpdateCountRead(p) \/ UpdateCountSave(p)

(* ---------- hackathonRegistrationSchema.post('save') (three awaits) ---- *)

\* where the handler continues once the save() it awaits has resolved
AfterSave(p) ==
  IF req[p].op = "register" THEN "hack_count" ELSE "ok"

SavedReply(p) ==
  IF req[p].op = "checkin" THEN Reply(200, "Participant checked in successfully")
  ELSE Reply(200, "Project submitted successfully")

ErrorReply(p, err) ==
  Failure(CASE req[p].op = "register" -> "Error registering for hackathon"
            [] req[p].op = "update" -> "Error updating registration"
            [] req[p].op = "cancel" -> "Error cancelling registration"
            [] req[p].op = "checkin" -> "Error checking in participant"
            [] OTHER -> "Error submitting project", err)

\* save() has resolved: go on in the handler, or reply
Resume(p) ==
  IF AfterSave(p) = "ok"
    THEN /\ Finish(p, SavedReply(p))
    ELSE /\ Goto(p, AfterSave(p))
         /\ fresh' = [fresh EXCEPT ![p] = NoHackathon]
         /\ modified' = [modified EXCEPT ![p] = FALSE]
         /\ UNCHANGED <<doc, hackathon, resp>>

\* const hackathon = await Hackathon.findById(doc.hackathon); if (hackathon) ...
PostFind(p) ==
  /\ pc[p] = "post_find"
  /\ UNCHANGED <<hackathons, registrations, now, req>>
  /\ IF findHackathonById(doc[p].hackathon) = Absent
       THEN Resume(p)
       ELSE /\ Goto(p, "post_count")
            /\ fresh' = [fresh EXCEPT ![p] = hackathons[doc[p].hackathon]]
            /\ UNCHANGED <<doc, hackathon, modified, resp>>

PostCount(p) ==
  /\ pc[p] = "post_count"
  /\ Goto(p, "post_save")
  /\ fresh' = [fresh EXCEPT ![p] = CountInto(fresh[p], registrations, doc[p].hackathon)]
  /\ modified' = [modified EXCEPT
       ![p] = countNonCancelled(registrations, doc[p].hackathon) # fresh[p].registrationCount]
  /\ UNCHANGED <<hackathons, registrations, now, req, doc, hackathon, resp>>

\* a failure of the hook's hackathon.save() rejects the save() of the
\* registration, which is stored by then
PostSave(p) ==
  /\ pc[p] = "post_save"
  /\ UNCHANGED <<registrations, now, req>>
  /\ IF HackathonPreSave(fresh[p]) # "ok"
       THEN /\ Finish(p, ErrorReply(p, HackathonPreSave(fresh[p])))
            /\ UNCHANGED hackathons
     ELSE IF modified[p] /\ doc[p].hackathon \notin DOMAIN hackathons
       THEN /\ Finish(p, ErrorReply(p, "DocumentNotFoundError"))
            /\ UNCHANGED hackathons
     ELSE /\ hackathons' = WriteCount(hackathons, doc[p].hackathon, fresh[p], modified[p])
          /\ Resume(p)

PostSaveHook(p) == PostFind(p) \/ PostCount(p) \/ PostSave(p)

(* ----------------------- registerForHackathon -------------------------- *)

\* Hackathon.findById; if (!hackathon) 404; if (!hackathon.canRegister()) 400
RegFindHackathon(p, r) ==
  /\ Accept(p, r)
  /\ UNCHANGED <<hackathons, registrations, now>>
  /\ IF findHackathonById(r.hid) = Absent
       THEN Finish(p, Reply(404, "Hackathon not found"))
     ELSE IF ~canRegister(hackathons[r.hid], now)
       THEN Finish(p, Reply(400, "Registration is not available for this hackathon"))
     ELSE /\ Goto(p, "reg_findExisting")
          /\ hackathon' = [hackathon EXCEPT ![p] = hackathons[r.hid]]
          /\ UNCHANGED <<doc, fresh, modified, resp>>

\* POST /:id/register by an authenticated user
StartRegister(p, users, bodies) ==
  \E u \in users, h \in ReqHackathonIds, b \in bodies :
    /\ h \notin HackathonIds => b = Consent
    /\ RegFindHackathon(p, [NoReq EXCEPT !.op = "register", !.user = u, !.hid = h, !.body = b])

\* HackathonRegistration.findOne({ hackathon, user }); new HackathonRegistration(...)
RegFindExisting(p) ==
  /\ pc[p] = "reg_findExisting"
  /\ UNCHANGED <<hackathons, registrations, now, req>>
  /\ IF RegIdsOf(req[p].hid, req[p].user) # {}
       THEN Finish(p, Reply(400, "You are already registered for this hackathon"))
       ELSE /\ Goto(p, "reg_preSave")
            /\ doc' = [doc EXCEPT ![p] = NewRegistration(req[p].body, req[p].hid, req[p].user)]
            /\ UNCHANGED <<hackathon, fresh, modified, resp>>

\* registration.save(): pre('save') with its own Hackathon.findById
RegPreSave(p) ==
  /\ pc[p] = "reg_preSave"
  /\ UNCHANGED <<hackathons, registrations, now, req>>
  /\ LET err == RegistrationPreSave(doc[p], TRUE, findHackathonById(doc[p].hackathon), now)
     IN IF err # "ok"
          THEN Finish(p, ErrorReply(p, err))
          ELSE /\ Goto(p, "reg_insert")
               /\ UNCHANGED <<doc, hackathon, fresh, modified, resp>>

\* registration.save(): the insert, refused by the unique index on a
\* duplicate key; then post('save') runs if doc.status === 'confirmed'
RegInsert(p) ==
  /\ pc[p] = "reg_insert"
  /\ ~UniqueIndexAllows(registrations, doc[p].hackathon, doc[p].user)
       \/ Len(registrations) < MaxRegs
  /\ UNCHANGED <<hackathons, now, req>>
  /\ IF ~UniqueIndexAllows(registrations, doc[p].hackathon, doc[p].user)
       THEN /\ Finish(p, ErrorReply(p, "E11000 duplicate key error"))
            /\ UNCHANGED registrations
       ELSE /\ registrations' = Append(registrations, Stored(doc[p]))
            /\ Goto(p, IF doc[p].status = "confirmed" THEN "post_find" ELSE AfterSave(p))
            /\ doc' = [doc EXCEPT ![p].id = Len(registrations) + 1]
            /\ UNCHANGED <<hackathon, fresh, modified, resp>>

RegisterSteps(p) ==
  \/ RegFindExisting(p) \/ RegPreSave(p) \/ RegInsert(p)

(* ------------------------- cancelRegistration -------------------------- *)

\* HackathonRegistration.findById; 404; 403; 400 already cancelled
CanFindReg(p, r) ==
  /\ Accept(p, r)
  /\ UNCHANGED <<hackathons, registrations, now>>
  /\ IF r.rid \notin DOMAIN registrations
       THEN Finish(p, Reply(404, "Registration not found"))
     ELSE IF registrations[r.rid].user # r.user
       THEN Finish(p, Reply(403, "Not authorized to cancel this registration"))
     ELSE IF registrations[r.rid].status = "cancelled"
       THEN Finish(p, Reply(400, "Registration is already cancelled"))
     ELSE /\ Goto(p, "can_findHackathon")
          /\ doc' = [doc EXCEPT ![p] = Loaded(r.rid)]
          /\ UNCHANGED <<hackathon, fresh, modified, resp>>

\* POST /registrations/:regId/cancel
StartCancel(p, users) ==
  \E u \in users, r \in RegIds :
    CanFindReg(p, [NoReq EXCEPT !.op = "cancel", !.user = u, !.rid = r])

PastCancellationDeadline_Reversed(h, t) == t <= h.startDate - CancellationWindow

\* now >= new Date(hackathon.startDate.getTime() - 24 * 60 * 60 * 1000)
PastCancellationDeadline(h, t) == t >= h.startDate - CancellationWindow

\* Hackathon.findById; the deadline test; registration.cancel() sets the status
CanFindHackathon(p) ==
  /\ pc[p] = "can_findHackathon"
  /\ UNCHANGED <<hackathons, registrations, now, req>>
  /\ IF findHackathonById(doc[p].hackathon) = Absent
       THEN Finish(p, ErrorReply(p, "TypeError: hackathon is null"))
     ELSE IF PastCancellationDeadline(hackathons[doc[p].hackathon], now)
       THEN Finish(p, Reply(400, "Cannot cancel registration within 24 hours of hackathon start time"))
     ELSE /\ Goto(p, "can_save")
          /\ hackathon' = [hackathon EXCEPT ![p] = hackathons[doc[p].hackathon]]
          /\ doc' = [doc EXCEPT ![p].status = "cancelled"]
          /\ UNCHANGED <<fresh, modified, resp>>

\* cancel(): this.save(), pre('save') of an existing document, $set status;
\* post('save') does nothing since doc.status is not 'confirmed'
CanSave(p) ==
  /\ pc[p] = "can_save"
  /\ UNCHANGED <<hackathons, now, req>>
  /\ LET err == RegistrationPreSave(doc[p], FALSE, Absent, now)
     IN IF err # "ok"
          THEN /\ Finish(p, ErrorReply(p, err))
               /\ registrations' = AbortedSave(registrations, doc[p])
          ELSE /\ registrations' = [registrations EXCEPT ![doc[p].id].status = doc[p].status]
               /\ Goto(p, IF doc[p].status = "confirmed" THEN "post_find" ELSE "hack_count")
               /\ UNCHANGED <<doc, hackathon, fresh, modified, resp>>

CancelSteps(p) == CanFindHackathon(p) \/ CanSave(p)

(* ------------------------- updateRegistration -------------------------- *)

\* HackathonRegistration.findById; 404; 403
UpdFindReg(p, r) ==
  /\ Accept(p, r)
  /\ UNCHANGED <<hackathons, registrations, now>>
  /\ IF r.rid \notin DOMAIN registrations
       THEN Finish(p, Reply(404, "Registration not found"))
     ELSE IF registrations[r.rid].user # r.user
       THEN Finish(p, Reply(403, "Not authorized to update this registration"))
     ELSE /\ Goto(p, "upd_findHackathon")
          /\ doc' = [doc EXCEPT ![p] = Loaded(r.rid)]
          /\ UNCHANGED <<hackathon, fresh, modified, resp>>

\* PUT /registrations/:regId
StartUpdate(p, users, bodies) ==
  \E u \in users, r \in RegIds, b \in bodies :
    UpdFindReg(p, [NoReq EXCEPT !.op = "update", !.user = u, !.rid = r, !.body = b])

\* registration.status === 'cancelled'
IsCancelled(r) == r.status = "cancelled"

HackathonStarted_Strict(h, t) == t > h.startDate

\* now >= hackathon.startDate
HackathonStarted(h, t) == t >= h.startDate

\* Hackathon.findById; 400 if the registration read before is cancelled;
\* 400 if now >= hackathon.startDate
UpdFindHackathon(p) ==
  /\ pc[p] = "upd_findHackathon"
  /\ UNCHANGED <<hackathons, registrations, now, req>>
  /\ IF IsCancelled(doc[p])
       THEN Finish(p, Reply(400, "Cannot update cancelled registration"))
     ELSE IF findHackathonById(doc[p].hackathon) = Absent
       THEN Finish(p, ErrorReply(p, "TypeError: hackathon is null"))
     ELSE IF HackathonStarted(hackathons[doc[p].hackathon], now)
       THEN Finish(p, Reply(400, "Cannot update registration after hackathon has started"))
     ELSE /\ Goto(p, "upd_write")
          /\ UNCHANGED <<doc, hackathon, fresh, modified, resp>>

\* the $set that findByIdAndUpdate(regId, req.body) applies to a stored document
ApplyBody(r, body) ==
  [r EXCEPT
     !.status = OrElse(body.status, @),
     !.participationType = OrElse(body.participationType, @),
     !.teamName = OrElse(body.teamName, @),
     !.teamMembers = OrElse(body.teamMembers, @),
     !.agreeToTerms = OrElse(body.agreeToTerms, @),
     !.agreeToCodeOfConduct = OrElse(body.agreeToCodeOfConduct, @),
     !.checkedIn = OrElse(body.checkedIn, @),
     !.checkInTime = IF IsSet(body.checkInTime) THEN body.checkInTime ELSE @,
     !.projectSubmitted = OrElse(body.projectSubmitted, @),
     !.projectDetails = IF IsSet(body.projectDetails) THEN body.projectDetails ELSE @]

\* HackathonRegistration.findByIdAndUpdate: no save hook runs
UpdWrite(p) ==
  /\ pc[p] = "upd_write"
  /\ registrations' = [registrations EXCEPT
       ![req[p].rid] = ApplyBody(registrations[req[p].rid], req[p].body)]
  /\ Finish(p, Reply(200, "Registration updated successfully"))
  /\ UNCHANGED <<hackathons, now, req>>

UpdateSteps(p) == UpdFindHackathon(p) \/ UpdWrite(p)

(* ------------------------- checkInParticipant -------------------------- *)

\* HackathonRegistration.findById(regId) of findById(...).populate('hackathon')
ChkFindReg(p, r) ==
  /\ Accept(p, r)
  /\ UNCHANGED <<hackathons, registrations, now>>
  /\ IF r.rid \notin DOMAIN registrations
       THEN Finish(p, Reply(404, "Registration not found"))
       ELSE /\ Goto(p, "chk_populate")
            /\ doc' = [doc EXCEPT ![p] = Loaded(r.rid)]
            /\ UNCHANGED <<hackathon, fresh, modified, resp>>

\* POST /registrations/:regId/checkin
StartCheckIn(p, users) ==
  \E u \in users, role \in {"user", "admin"}, r \in RegIds :
    /\ u = Organizer => role = "user"
    /\ ChkFindReg(p, [NoReq EXCEPT !.op = "checkin", !.user = u, !.role = role, !.rid = r])

AlreadyCheckedIn_Never(r) == FALSE

\* if (registration.checkedIn)
AlreadyCheckedIn(r) == r.checkedIn

\* populate('hackathon'); 403; 400 already checked in; 400 before start;
\* checkIn() sets checkedIn and checkInTime = new Date() before its save()
ChkPopulate(p) ==
  /\ pc[p] = "chk_populate"
  /\ UNCHANGED <<hackathons, registrations, now, req>>
  /\ IF findHackathonById(doc[p].hackathon) = Absent
       THEN Finish(p, ErrorReply(p, "TypeError: registration.hackathon is null"))
     ELSE IF hackathons[doc[p].hackathon].createdBy # req[p].user /\ req[p].role # "admin"
       THEN Finish(p, Reply(403, "Not authorized to check in participants"))
     ELSE IF AlreadyCheckedIn(doc[p])
       THEN Finish(p, Reply(400, "Participant is already checked in"))
     ELSE IF now < hackathons[doc[p].hackathon].startDate
       THEN Finish(p, Reply(400, "Cannot check in before hackathon starts"))
     ELSE /\ Goto(p, "chk_save")
          /\ hackathon' = [hackathon EXCEPT ![p] = hackathons[doc[p].hackathon]]
          /\ doc' = [doc EXCEPT ![p].checkedIn = TRUE, ![p].checkInTime = Some(now)]
          /\ UNCHANGED <<fresh, modified, resp>>

\* checkIn(): this.save(): pre('save'), $set checkedIn and checkInTime,
\* then post('save') if doc.status === 'confirmed'
ChkSave(p) ==
  /\ pc[p] = "chk_save"
  /\ UNCHANGED <<hackathons, now, req>>
  /\ LET err == RegistrationPreSave(doc[p], FALSE, Absent, now)
     IN IF err # "ok"
          THEN /\ Finish(p, ErrorReply(p, err))
               /\ registrations' = AbortedSave(registrations, doc[p])
        ELSE IF doc[p].status = "confirmed"
          THEN /\ registrations' = [registrations EXCEPT
                    ![doc[p].id].checkedIn = doc[p].checkedIn,
                    ![doc[p].id].checkInTime = doc[p].checkInTime]
               /\ Goto(p, "post_find")
               /\ UNCHANGED <<doc, hackathon, fresh, modified, resp>>
        ELSE /\ registrations' = [registrations EXCEPT
                    ![doc[p].id].checkedIn = doc[p].checkedIn,
                    ![doc[p].id].checkInTime = doc[p].checkInTime]
             /\ Finish(p, SavedReply(p))

CheckInSteps(p) == ChkPopulate(p) \/ ChkSave(p)

(* ----------------------------- submitProject --------------------------- *)

SubFindReg(p, r) ==
  /\ Accept(p, r)
  /\ UNCHANGED <<hackathons, registrations, now>>
  /\ IF r.rid \notin DOMAIN registrations
       THEN Finish(p, Reply(404, "Registration not found"))
       ELSE /\ Goto(p, "sub_populate")
            /\ doc' = [doc EXCEPT ![p] = Loaded(r.rid)]
            /\ UNCHANGED <<hackathon, fresh, modified, resp>>

\* POST /registrations/:regId/submit
StartSubmit(p, users, bodies) ==
  \E u \in users, r \in RegIds, b \in bodies :
    SubFindReg(p, [NoReq EXCEPT !.op = "submit", !.user = u, !.rid = r, !.body = b])

AlreadySubmitted_Never(r) == FALSE

\* if (registration.projectSubmitted)
AlreadySubmitted(r) == r.projectSubmitted

\* populate('hackathon'); 403; 400 already submitted; 400 before start;
\* submitProject(req.body) sets projectSubmitted and projectDetails
SubPopulate(p) ==
  /\ pc[p] = "sub_populate"
  /\ UNCHANGED <<hackathons, registrations, now, req>>
  /\ IF doc[p].user # req[p].user
       THEN Finish(p, Reply(403, "Not authorized to submit project for this registration"))
     ELSE IF AlreadySubmitted(doc[p])
       THEN Finish(p, Reply(400, "Project already submitted"))
     ELSE IF findHackathonById(doc[p].hackathon) = Absent
       THEN Finish(p, ErrorReply(p, "TypeError: registration.hackathon is null"))
     ELSE IF now < hackathons[doc[p].hackathon].startDate
       THEN Finish(p, Reply(400, "Cannot submit project before hackathon starts"))
     ELSE /\ Goto(p, "sub_save")
          /\ hackathon' = [hackathon EXCEPT ![p] = hackathons[doc[p].hackathon]]
          /\ doc' = [doc EXCEPT
               ![p].projectSubmitted = TRUE,
               ![p].projectDetails =
                  Some([title |-> OrElse(req[p].body.title, ""), submissionTime |-> now])]
          /\ UNCHANGED <<fresh, modified, resp>>

SubSave(p) ==
  /\ pc[p] = "sub_save"
  /\ UNCHANGED <<hackathons, now, req>>
  /\ LET err == RegistrationPreSave(doc[p], FALSE, Absent, now)
     IN IF err # "ok"
          THEN /\ Finish(p, ErrorReply(p, err))
               /\ registrations' = AbortedSave(registrations, doc[p])
        ELSE IF doc[p].status = "confirmed"
          THEN /\ registrations' = [registrations EXCEPT
                    ![doc[p].id].projectSubmitted = doc[p].projectSubmitted,
                    ![doc[p].id].projectDetails = doc[p].projectDetails]
               /\ Goto(p, "post_find")
               /\ UNCHANGED <<doc, hackathon, fresh, modified, resp>>
        ELSE /\ registrations' = [registrations EXCEPT
                    ![doc[p].id].projectSubmitted = doc[p].projectSubmitted,
                    ![doc[p].id].projectDetails = doc[p].projectDetails]
             /\ Finish(p, SavedReply(p))

SubmitSteps(p) == SubPopulate(p) \/ SubSave(p)

(* --------------------------- hackathon bodies -------------------------- *)

Dates(s, e, d) ==
  [NoHackathonBody EXCEPT !.startDate = Some(s), !.endDate = Some(e),
                          !.registrationDeadline = Some(d)]

\* bodies of POST / and POST /draft
CreateBodies ==
  { Dates(3, 4, 1),
    [Dates(3, 4, 1) EXCEPT !.isPublished = Some(TRUE), !.judgingCriteria = Some(<<60, 40>>)],
    Dates(3, 3, 1),
    Dates(3, 4, 3),
    [Dates(3, 4, 1) EXCEPT !.teamSizeMin = Some(3), !.teamSizeMax = Some(2)],
    [Dates(3, 4, 1) EXCEPT !.judgingCriteria = Some(<<60, 30>>)],
    [Dates(3, 4, 1) EXCEPT !.teamSizeMin = Some(0)],
    [NoHackathonBody EXCEPT !.startDate = Some(3), !.endDate = Some(4)] }

\* bodies of PUT /:id
HackathonUpdateBodies ==
  { [NoHackathonBody EXCEPT !.teamSizeMin = Some(2)],
    [NoHackathonBody EXCEPT !.teamSizeMin = Some(3)],
    [NoHackathonBody EXCEPT !.endDate = Some(2)],
    [NoHackathonBody EXCEPT !.judgingCriteria = Some(<<50>>)],
    [NoHackathonBody EXCEPT !.isPublished = Some(TRUE)],
    [NoHackathonBody EXCEPT !.status = Some("cancelled")],
    [NoHackathonBody EXCEPT !.maxParticipants = Some(0)] }

(* ------------------------ hackathon schema ----------------------------- *)

HackathonStatuses == {"draft", "published", "ongoing", "completed", "cancelled"}

\* the schema validators of the paths a body sets: min: 1 on the sizes and
\* the capacity, the enum of status
PathsValid(body) ==
  /\ OrElse(body.teamSizeMin, 1) >= 1
  /\ OrElse(body.teamSizeMax, 1) >= 1
  /\ OrElse(body.maxParticipants, 1) >= 1
  /\ OrElse(body.status, "draft") \in HackathonStatuses

\* validation of a new document: the three dates are required
NewHackathonValid(body) ==
  /\ IsSet(body.startDate) /\ IsSet(body.endDate) /\ IsSet(body.registrationDeadline)
  /\ PathsValid(body)

\* new Hackathon({ ...req.body, createdBy, status }) with the schema defaults
NewHackathon(body, u, st) ==
  [createdBy |-> u, status |-> st,
   startDate |-> OrElse(body.startDate, 0), endDate |-> OrElse(body.endDate, 0),
   registrationDeadline |-> OrElse(body.registrationDeadline, 0),
   teamSizeMin |-> OrElse(body.teamSizeMin, 1),
   teamSizeMax |-> OrElse(body.teamSizeMax, 4),
   maxParticipants |-> OrElse(body.maxParticipants, 100),
   registrationCount |-> 0,
   judgingCriteria |-> OrElse(body.judgingCriteria, << >>)]

\* the _id the store gives to the next hackathon
NextHackathonId == CHOOSE id \in AllHackathonIds : id \notin DOMAIN hackathons

InsertHackathon(hs, id, h) ==
  [i \in DOMAIN hs \cup {id} |-> IF i = id THEN h ELSE hs[i]]

(* -------------------- createHackathon and saveDraft -------------------- *)

\* hackathon.save() of a new document: validation, pre('save'), insert
SaveNewHackathon(p, h, body, created, invalid, failed) ==
  /\ UNCHANGED <<registrations, now>>
  /\ IF ~NewHackathonValid(body)
       THEN Finish(p, invalid) /\ UNCHANGED hackathons
     ELSE IF HackathonPreSave(h) # "ok"
       THEN Finish(p, Failure(failed, HackathonPreSave(h))) /\ UNCHANGED hackathons
     ELSE /\ hackathons' = InsertHackathon(hackathons, NextHackathonId, h)
          /\ Finish(p, created)

\* POST /: status from req.body.isPublished; a ValidationError is a 400
CreateHackathon(p, users, bodies) ==
  \E u \in users, b \in bodies :
    /\ AllHackathonIds \ DOMAIN hackathons # {}
    /\ Accept(p, [NoReq EXCEPT !.op = "create", !.user = u, !.hbody = b])
    /\ SaveNewHackathon(p,
         NewHackathon(b, u, IF OrElse(b.isPublished, FALSE) THEN "published" ELSE "draft"),
         b, Reply(201, "Hackathon created successfully"),
         Reply(400, "Validation error"), "Error creating hackathon")

\* POST /draft: status 'draft'; every error is a 500
SaveDraft(p, users, bodies) ==
  \E u \in users, b \in bodies :
    /\ AllHackathonIds \ DOMAIN hackathons # {}
    /\ Accept(p, [NoReq EXCEPT !.op = "draft", !.user = u, !.hbody = b])
    /\ SaveNewHackathon(p, NewHackathon(b, u, "draft"),
         b, Reply(201, "Draft saved successfully"),
         Failure("Error saving draft", "ValidationError"), "Error saving draft")

(* --------------------------- publishHackathon -------------------------- *)

\* hackathon.createdBy !== req.user._id && req.user.role !== 'admin'
NotHackathonOwner(h, r) == h.createdBy # r.user /\ r.role # "admin"

\* Hackathon.findById; 404; 403; hackathon.status = 'published'
PubFind(p, r) ==
  /\ Accept(p, r)
  /\ UNCHANGED <<hackathons, registrations, now>>
  /\ IF findHackathonById(r.hid) = Absent
       THEN Finish(p, Reply(404, "Hackathon not found"))
     ELSE IF NotHackathonOwner(hackathons[r.hid], r)
       THEN Finish(p, Reply(403, "Not authorized to publish this hackathon"))
     ELSE /\ Goto(p, "pub_save")
          /\ hackathon' = [hackathon EXCEPT ![p] = [hackathons[r.hid] EXCEPT !.status = "published"]]
          /\ UNCHANGED <<doc, fresh, modified, resp>>

\* POST /:id/publish
StartPublish(p, users) ==
  \E u \in users, h \in AllHackathonIds :
    PubFind(p, [NoReq EXCEPT !.op = "publish", !.user = u, !.hid = h])

\* hackathon.save(): pre('save') on the document in memory, $set status
PubSave(p) ==
  /\ pc[p] = "pub_save"
  /\ UNCHANGED <<registrations, now, req>>
  /\ IF HackathonPreSave(hackathon[p]) # "ok"
       THEN /\ Finish(p, Failure("Error publishing hackathon", HackathonPreSave(hackathon[p])))
            /\ UNCHANGED hackathons
     ELSE IF req[p].hid \notin DOMAIN hackathons
       THEN /\ Finish(p, Failure("Error publishing hackathon", "DocumentNotFoundError"))
            /\ UNCHANGED hackathons
     ELSE /\ hackathons' = [hackathons EXCEPT ![req[p].hid].status = hackathon[p].status]
          /\ Finish(p, Reply(200, "Hackathon published successfully"))

(* ---------------------------- updateHackathon -------------------------- *)

\* Hackathon.findById; 404; 403; req.body.status from req.body.isPublished
UpdhFind(p, r) ==
  /\ Accept(p, r)
  /\ UNCHANGED <<hackathons, registrations, now>>
  /\ IF findHackathonById(r.hid) = Absent
       THEN Finish(p, Reply(404, "Hackathon not found"))
     ELSE IF NotHackathonOwner(hackathons[r.hid], r)
       THEN Finish(p, Reply(403, "Not authorized to update this hackathon"))
     ELSE /\ Goto(p, "updh_write")
          /\ UNCHANGED <<doc, hackathon, fresh, modified, resp>>

\* PUT /:id
StartUpdateHackathon(p, users, bodies) ==
  \E u \in users, h \in AllHackathonIds, b \in bodies :
    UpdhFind(p, [NoReq EXCEPT !.op = "updateHackathon", !.user = u, !.hid = h, !.hbody = b])

\* the body as findByIdAndUpdate receives it
WithStatusFromIsPublished(body) ==
  IF IsSet(body.isPublished)
    THEN [body EXCEPT !.status = Some(IF body.isPublished[1] THEN "published" ELSE "draft")]
    ELSE body

\* the $set that findByIdAndUpdate(id, req.body) applies to a stored hackathon
ApplyHackathonBody(h, body) ==
  [h EXCEPT
     !.startDate = OrElse(body.startDate, @),
     !.endDate = OrElse(body.endDate, @),
     !.registrationDeadline = OrElse(body.registrationDeadline, @),
     !.teamSizeMin = OrElse(body.teamSizeMin, @),
     !.teamSizeMax = OrElse(body.teamSizeMax, @),
     !.maxParticipants = OrElse(body.maxParticipants, @),
     !.judgingCriteria = OrElse(body.judgingCriteria, @),
     !.status = OrElse(body.status, @)]

\* Hackathon.findByIdAndUpdate(id, req.body, { runValidators: true }): the
\* validators of the paths set; no save hook runs
UpdhWrite(p) ==
  /\ pc[p] = "updh_write"
  /\ UNCHANGED <<registrations, now, req>>
  /\ IF ~PathsValid(WithStatusFromIsPublished(req[p].hbody))
       THEN Finish(p, Reply(400, "Validation error")) /\ UNCHANGED hackathons
     ELSE /\ hackathons' =
               IF req[p].hid \in DOMAIN hackathons
                 THEN [hackathons EXCEPT ![req[p].hid] =
                         ApplyHackathonBody(@, WithStatusFromIsPublished(req[p].hbody))]
                 ELSE hackathons
          /\ Finish(p, Reply(200, "Hackathon updated successfully"))

HackathonSteps(p) == PubSave(p) \/ UpdhWrite(p)

(* ---------------------------- deleteHackathon -------------------------- *)

\* Hackathon.findById; 404; 403
DelFind(p, r) ==
  /\ Accept(p, r)
  /\ UNCHANGED <<hackathons, registrations, now>>
  /\ IF findHackathonById(r.hid) = Absent
       THEN Finish(p, Reply(404, "Hackathon not found"))
     ELSE IF NotHackathonOwner(hackathons[r.hid], r)
       THEN Finish(p, Reply(403, "Not authorized to delete this hackathon"))
     ELSE /\ Goto(p, "del_count")
          /\ UNCHANGED <<doc, hackathon, fresh, modified, resp>>

\* DELETE /:id
StartDelete(p, users) ==
  \E u \in users, h \in ReqHackathonIds :
    DelFind(p, [NoReq EXCEPT !.op = "delete", !.user = u, !.hid = h])

\* countDocuments({ hackathon, status: { $ne: 'cancelled' } }) > 0
HasActiveRegistrations(regs, id) == countNonCancelled(regs, id) > 0

DelCount(p) ==
  /\ pc[p] = "del_count"
  /\ UNCHANGED <<hackathons, registrations, now, req>>
  /\ IF HasActiveRegistrations(registrations, req[p].hid)
       THEN Finish(p, Reply(400, "Cannot delete hackathon with active registrations. Please cancel all registrations first."))
       ELSE /\ Goto(p, "del_delete")
            /\ UNCHANGED <<doc, hackathon, fresh, modified, resp>>

\* Hackathon.findByIdAndDelete(req.params.id)
DelDelete(p) ==
  /\ pc[p] = "del_delete"
  /\ UNCHANGED <<registrations, now, req>>
  /\ hackathons' = [id \in DOMAIN hackathons \ {req[p].hid} |-> hackathons[id]]
  /\ Finish(p, Reply(200, "Hackathon deleted successfully"))

DeleteSteps(p) == DelCount(p) \/ DelDelete(p)

(* --------------------------- getHackathonStats ------------------------- *)

\* { $match: { hackathon: hackathonId } }
Matched(regs, h) == {i \in DOMAIN regs : regs[i].hackathon = h}

\* hackathonRegistrationSchema.statics.getStats: the $group over the
\* registrations of the hackathon, or the zero record when there is none
getStats(regs, h) ==
  LET m == Matched(regs, h)
  IN IF m = {}
       THEN [total |-> 0, confirmed |-> 0, pending |-> 0, cancelled |-> 0,
             checkedIn |-> 0, projectsSubmitted |-> 0, soloParticipants |-> 0,
             teamParticipants |-> 0]
       ELSE [total |-> Cardinality(m),
             confirmed |-> Cardinality({i \in m : regs[i].status = "confirmed"}),
             pending |-> Cardinality({i \in m : regs[i].status = "pending"}),
             cancelled |-> Cardinality({i \in m : regs[i].status = "cancelled"}),
             checkedIn |-> Cardinality({i \in m : regs[i].checkedIn}),
             projectsSubmitted |-> Cardinality({i \in m : regs[i].projectSubmitted}),
             soloParticipants |-> Cardinality({i \in m : regs[i].participationType = "solo"}),
             teamParticipants |-> Cardinality({i \in m : regs[i].participationType = "team"})]

\* Hackathon.findById; 404; 403
StatsFind(p, r) ==
  /\ Accept(p, r)
  /\ UNCHANGED <<hackathons, registrations, now>>
  /\ IF findHackathonById(r.hid) = Absent
       THEN Finish(p, Reply(404, "Hackathon not found"))
     ELSE IF NotHackathonOwner(hackathons[r.hid], r)
       THEN Finish(p, Reply(403, "Not authorized to view hackathon statistics"))
     ELSE /\ Goto(p, "stats_aggregate")
          /\ UNCHANGED <<doc, hackathon, fresh, modified, resp>>

\* GET /:id/stats
StartStats(p, users) ==
  \E u \in users, h \in AllHackathonIds :
    StatsFind(p, [NoReq EXCEPT !.op = "stats", !.user = u, !.hid = h])

\* HackathonRegistration.getStats(hackathon._id); the find() that follows
\* feeds only the skill and organization tables; res.json({ registrationStats, ... })
StatsAggregate(p) ==
  /\ pc[p] = "stats_aggregate"
  /\ UNCHANGED <<hackathons, registrations, now, req>>
  /\ Finish(p, [Reply(200, "") EXCEPT !.stats = Some(getStats(registrations, req[p].hid))])

(* ------------------------------ specifications ------------------------ *)

\* every registration request, one at a time
Next ==
  \/ \E p \in SeqProcs :
       \/ StartRegister(p, Registrants, RegisterBodies)
       \/ StartUpdate(p, Registrants, UpdateBodies)
       \/ StartCancel(p, Registrants)
       \/ StartCheckIn(p, Users)
       \/ StartSubmit(p, Registrants, SubmitBodies)
       \/ RegisterSteps(p) \/ UpdateSteps(p) \/ CancelSteps(p)
       \/ CheckInSteps(p) \/ SubmitSteps(p)
       \/ PostSaveHook(p) \/ UpdateRegistrationCount(p)
       \/ Respond(p)
  \/ Tick

Spec == Init /\ [][Next]_vars

\* register and cancel requests, one at a time
NextRegCancel ==
  \/ \E p \in SeqProcs :
       \/ StartRegister(p, Registrants, RegisterBodies)
       \/ StartCancel(p, Registrants)
       \/ RegisterSteps(p) \/ CancelSteps(p)
       \/ PostSaveHook(p) \/ UpdateRegistrationCount(p)
       \/ Respond(p)
  \/ Tick

SpecRegCancel == InitFrom(InitHackathons) /\ [][NextRegCancel]_vars

\* register, cancel and check-in requests, one at a time
NextCheckIn ==
  \/ \E p \in SeqProcs :
       \/ StartRegister(p, Registrants, RegisterBodies)
       \/ StartCancel(p, Registrants)
       \/ StartCheckIn(p, Users)
       \/ RegisterSteps(p) \/ CancelSteps(p) \/ CheckInSteps(p)
       \/ PostSaveHook(p) \/ UpdateRegistrationCount(p)
       \/ Respond(p)
  \/ Tick

SpecCheckIn == Init /\ [][NextCheckIn]_vars

\* register, update and cancel requests, one at a time
NextUpdate ==
  \/ \E p \in SeqProcs :
       \/ StartRegister(p, Registrants, PlainRegisterBodies)
       \/ StartUpdate(p, Registrants, UpdateBodies)
       \/ StartCancel(p, Registrants)
       \/ RegisterSteps(p) \/ UpdateSteps(p) \/ CancelSteps(p)
       \/ PostSaveHook(p) \/ UpdateRegistrationCount(p)
       \/ Respond(p)
  \/ Tick

SpecUpdate == Init /\ [][NextUpdate]_vars

\* register, cancel and submit requests, one at a time
NextSubmit ==
  \/ \E p \in SeqProcs :
       \/ StartRegister(p, Registrants, RegisterBodies)
       \/ StartCancel(p, Registrants)
       \/ StartSubmit(p, Registrants, SubmitBodies)
       \/ RegisterSteps(p) \/ CancelSteps(p) \/ SubmitSteps(p)
       \/ PostSaveHook(p) \/ UpdateRegistrationCount(p)
       \/ Respond(p)
  \/ Tick

SpecSubmit == Init /\ [][NextSubmit]_vars

\* register and cancel requests, one at a time, for hackathons with
\* different team sizes
SpecTeamSize == InitFrom(TeamHackathons) /\ [][NextRegCancel]_vars

\* the hackathon routes, one request at a time
NextHackathon ==
  \E p \in SeqProcs :
    \/ CreateHackathon(p, Users, CreateBodies)
    \/ SaveDraft(p, Users, CreateBodies)
    \/ StartPublish(p, Users)
    \/ StartUpdateHackathon(p, Users, HackathonUpdateBodies)
    \/ HackathonSteps(p)
    \/ Respond(p)

SpecHackathon == Init /\ [][NextHackathon]_vars

\* bodies of PUT /registrations/:regId that set a status or a type
FrameRegisterBodies == {Consent, TeamOf(" ", 1), [NoBody EXCEPT !.agreeToTerms = Some(TRUE)]}

FrameUpdateBodies ==
  { [NoBody EXCEPT !.agreeToTerms = Some(FALSE)],
    [NoBody EXCEPT !.status = Some("cancelled")] }

FrameSubmitBodies == {[NoBody EXCEPT !.title = Some("demo")]}

\* the five registration routes, one request at a time
NextFrame ==
  \/ \E p \in SeqProcs :
       \/ StartRegister(p, Registrants, FrameRegisterBodies)
       \/ StartUpdate(p, Registrants, FrameUpdateBodies)
       \/ StartCancel(p, Registrants)
       \/ StartCheckIn(p, Users)
       \/ StartSubmit(p, Registrants, FrameSubmitBodies)
       \/ RegisterSteps(p) \/ UpdateSteps(p) \/ CancelSteps(p)
       \/ CheckInSteps(p) \/ SubmitSteps(p)
       \/ PostSaveHook(p) \/ UpdateRegistrationCount(p)
       \/ Respond(p)
  \/ Tick

SpecFrame == Init /\ [][NextFrame]_vars

StatsUpdateBodies ==
  { [NoBody EXCEPT !.status = Some("waitlisted")],
    [NoBody EXCEPT !.status = Some("rejected")],
    [NoBody EXCEPT !.status = Some("pending")],
    [NoBody EXCEPT !.participationType = Some("team"), !.teamName = Some("Foo"),
                   !.teamMembers = Some(1)] }

\* register, update and check-in requests and the statistics route, one
\* request at a time
NextStats ==
  \/ \E p \in SeqProcs :
       \/ StartRegister(p, Registrants, PlainRegisterBodies)
       \/ StartUpdate(p, Registrants, StatsUpdateBodies)
       \/ StartCancel(p, Registrants)
       \/ StartCheckIn(p, {Organizer})
       \/ StartStats(p, Users)
       \/ RegisterSteps(p) \/ UpdateSteps(p) \/ CancelSteps(p) \/ CheckInSteps(p)
       \/ StatsAggregate(p)
       \/ PostSaveHook(p) \/ UpdateRegistrationCount(p)
       \/ Respond(p)
  \/ Tick

SpecStats == Init /\ [][NextStats]_vars

\* register and cancel requests interleaving at their awaits
NextRace ==
  \/ \E p \in Procs :
       \/ StartRegister(p, Registrants, PlainRegisterBodies)
       \/ StartCancel(p, Registrants)
       \/ RegisterSteps(p) \/ CancelSteps(p)
       \/ PostSaveHook(p) \/ UpdateRegistrationCount(p)
       \/ Respond(p)
  \/ Tick

SpecRace == InitFrom(PublishedHackathons) /\ [][NextRace]_vars

\* register, update and cancel requests interleaving at their awaits
RaceUpdateBodies ==
  { [NoBody EXCEPT !.status = Some("cancelled")],
    [NoBody EXCEPT !.status = Some("pending")] }

NextUpdateRace ==
  \/ \E p \in Procs :
       \/ StartRegister(p, Registrants, PlainRegisterBodies)
       \/ StartUpdate(p, Registrants, RaceUpdateBodies)
       \/ StartCancel(p, Registrants)
       \/ RegisterSteps(p) \/ UpdateSteps(p) \/ CancelSteps(p)
       \/ PostSaveHook(p) \/ UpdateRegistrationCount(p)
       \/ Respond(p)
  \/ Tick

SpecUpdateRace == InitFrom(PublishedHackathons) /\ [][NextUpdateRace]_vars

\* register and check-in requests interleaving at their awaits
NextCheckInRace ==
  \/ \E p \in Procs :
       \/ StartRegister(p, Registrants, PlainRegisterBodies)
       \/ StartCheckIn(p, Users)
       \/ RegisterSteps(p) \/ CheckInSteps(p)
       \/ PostSaveHook(p) \/ UpdateRegistrationCount(p)
       \/ Respond(p)
  \/ Tick

SpecCheckInRace == InitFrom(PublishedHackathons) /\ [][NextCheckInRace]_vars

ManageCreateBodies == {Dates(3, 4, 1)}

ManageUpdateBodies ==
  { [NoHackathonBody EXCEPT !.judgingCriteria = Some(<<50>>)],
    [NoHackathonBody EXCEPT !.registrationDeadline = Some(3)],
    [NoHackathonBody EXCEPT !.isPublished = Some(TRUE)] }

\* the organizer creates, updates and publishes hackathons and users
\* register, one request at a time, while the clock advances
NextManage ==
  \/ \E p \in SeqProcs :
       \/ CreateHackathon(p, {Organizer}, ManageCreateBodies)
       \/ StartPublish(p, {Organizer})
       \/ StartUpdateHackathon(p, {Organizer}, ManageUpdateBodies)
       \/ HackathonSteps(p)
       \/ StartRegister(p, Registrants, PlainRegisterBodies)
       \/ RegisterSteps(p)
       \/ PostSaveHook(p) \/ UpdateRegistrationCount(p)
       \/ Respond(p)
  \/ Tick

SpecManage == Init /\ [][NextManage]_vars

\* register requests of users and delete requests of the organizer that
\* may interleave
NextDeleteRace ==
  \/ \E p \in Procs :
       \/ StartRegister(p, Registrants, PlainRegisterBodies)
       \/ StartCancel(p, Registrants)
       \/ StartDelete(p, Users)
       \/ RegisterSteps(p) \/ CancelSteps(p) \/ DeleteSteps(p)
       \/ PostSaveHook(p) \/ UpdateRegistrationCount(p)
       \/ Respond(p)
  \/ Tick

SpecDeleteRace == InitFrom(PublishedHackathons) /\ [][NextDeleteRace]_vars

\* register, check-in, cancel and update requests, one at a time, for
\* hackathons whose dates nobody changes
NextAfterCheckIn ==
  \/ \E p \in SeqProcs :
       \/ StartRegister(p, Registrants, PlainRegisterBodies)
       \/ StartCheckIn(p, Users)
       \/ StartCancel(p, Registrants)
       \/ StartUpdate(p, Registrants, UpdateBodies)
       \/ RegisterSteps(p) \/ CheckInSteps(p) \/ CancelSteps(p) \/ UpdateSteps(p)
       \/ PostSaveHook(p) \/ UpdateRegistrationCount(p)
       \/ Respond(p)
  \/ Tick

SpecAfterCheckIn == Init /\ [][NextAfterCheckIn]_vars

\* two distinct authenticated users
TwoRegistrants == Registrants \cup {NumUsers + 1}

\* register requests of two users that may interleave
NextCapacityRace ==
  \/ \E p \in Procs :
       \/ StartRegister(p, TwoRegistrants, PlainRegisterBodies)
       \/ RegisterSteps(p)
       \/ PostSaveHook(p) \/ UpdateRegistrationCount(p)
       \/ Respond(p)
  \/ Tick

SpecCapacityRace == InitFrom(PublishedHackathons) /\ [][NextCapacityRace]_vars

(* ================================ claims =============================== *)

\* no request is between two of its awaits
Quiescent == \A p \in Procs : pc[p] \in {"idle", "done"}

RegistrationsFor(h) == {i \in DOMAIN registrations : registrations[i].hackathon = h}

ActiveRegistrations(h) ==
  {i \in RegistrationsFor(h) : registrations[i].status # "cancelled"}

CountIsExact ==
  \A h \in DOMAIN hackathons :
    hackathons[h].registrationCount = Cardinality(ActiveRegistrations(h))

\* C1: in every reachable state there is at most one registration record
\* per (hackathon, user) pair, also when two register requests for the pair
\* both pass the already-registered lookup before either saves.
C1_OneRegistrationPerPair ==
  \A i, j \in DOMAIN registrations :
    (/\ registrations[i].hackathon = registrations[j].hackathon
     /\ registrations[i].user = registrations[j].user) => i = j

\* two requests for the same pair both passed the lookup; one was stored,
\* the other was refused by the index
C1_Witness ==
  \E p, q \in Procs :
    /\ p # q
    /\ pc[p] = "done" /\ req[p].op = "register"
    /\ resp[p].error = "E11000 duplicate key error"
    /\ req[q].op = "register" /\ req[q].user = req[p].user /\ req[q].hid = req[p].hid
    /\ pc[q] = "done" /\ resp[q].status = 201
    /\ Cardinality({i \in DOMAIN registrations :
                      registrations[i].user = req[p].user}) = 1

\* C2: after any sequence of register and cancel requests run one at a
\* time, the stored registrationCount equals the number of registrations
\* of the hackathon whose status is not 'cancelled'.
C2_CountAfterSequentialRequests == Quiescent => CountIsExact

\* a cancel request has completed after a register request: the count that
\* the registration raised is back at the number of active registrations
C2_Witness ==
  \E p \in Procs :
    /\ pc[p] = "done" /\ req[p].op = "cancel" /\ resp[p].status = 200
    /\ registrations[req[p].rid].status = "cancelled"
    /\ hackathons[registrations[req[p].rid].hackathon].registrationCount
         = Cardinality(ActiveRegistrations(registrations[req[p].rid].hackathon))

\* C4: when register and cancel requests interleave, once all requests
\* in flight have finished the stored registrationCount equals the number
\* of non-cancelled registrations.
C4_CountConvergesWhenQuiescent == Quiescent => CountIsExact

\* C3: whenever an operation moves a registration into or out of the
\* non-cancelled set (a status written through updateRegistration's body
\* included), registrationCount is recomputed before the operation
\* completes, so that it equals the number of non-cancelled registrations.
C3_CountRecomputedOnStatusChange ==
  \A p \in Procs :
    (/\ pc[p] = "done"
     /\ req[p].op \in {"register", "update", "cancel"}
     /\ resp[p].status \in {200, 201}) => CountIsExact

\* C5: once a registration's status is 'cancelled', no operation changes
\* its status to any other value.
C5_CancelledIsTerminal ==
  [][\A i \in DOMAIN registrations :
       registrations[i].status = "cancelled" => registrations'[i].status = "cancelled"]_vars

NotAvailable == Reply(400, "Registration is not available for this hackathon")

\* the registration window, written out from the hackathon's stored fields
WindowOpen(h, t) ==
  /\ ~(t > h.registrationDeadline)
  /\ h.maxParticipants - h.registrationCount >= 1
  /\ h.status \notin {"draft", "ongoing", "completed", "cancelled"}

StoreUnchanged == registrations' = registrations /\ hackathons' = hackathons

\* C6: registerForHackathon on an existing hackathon is denied with
\* 'registration not available', persisting nothing, exactly when
\* now > registrationDeadline or registrationCount >= maxParticipants or the
\* stored status is not 'published'; the same test in the save hook denies
\* the request only when the window is closed.
C6_DeniedIffCannotRegister ==
  [][\A p \in Procs :
       /\ (pc[p] = "idle" /\ req'[p].op = "register" /\ req'[p].hid \in DOMAIN hackathons)
            => /\ (resp'[p] = NotAvailable) <=> ~WindowOpen(hackathons[req'[p].hid], now)
               /\ ~WindowOpen(hackathons[req'[p].hid], now) => StoreUnchanged
       /\ (pc[p] = "reg_preSave" /\ pc'[p] # pc[p] /\ req[p].hid \in DOMAIN hackathons)
            => /\ resp'[p].error = NotAvailable.message
                    => ~WindowOpen(hackathons[req[p].hid], now)
               /\ ~WindowOpen(hackathons[req[p].hid], now)
                    => pc'[p] = "done" /\ resp'[p].status = 500 /\ StoreUnchanged]_vars

\* a published hackathon before its deadline denies a registration because
\* registrationCount has reached maxParticipants
C6_Witness ==
  \E p \in Procs :
    /\ pc[p] = "done" /\ req[p].op = "register" /\ resp[p] = NotAvailable
    /\ hackathons[req[p].hid].status = "published"
    /\ now <= hackathons[req[p].hid].registrationDeadline
    /\ hackathons[req[p].hid].registrationCount = hackathons[req[p].hid].maxParticipants
    /\ hackathons[req[p].hid].registrationCount > 0

MayCheckIn(p) ==
  /\ req[p].op = "checkin"
  /\ req[p].rid \in DOMAIN registrations
  /\ registrations[req[p].rid].hackathon \in DOMAIN hackathons
  /\ \/ hackathons[registrations[req[p].rid].hackathon].createdBy = req[p].user
     \/ req[p].role = "admin"

AlreadyCheckedInReply == Reply(400, "Participant is already checked in")

\* C7: a checkInParticipant issued after a successful one has completed is
\* rejected as already checked in and leaves every stored field as the
\* first call left it.
C7_SecondCheckInRejected ==
  [][\A p \in Procs :
       (/\ pc[p] = "chk_populate" /\ pc'[p] # pc[p]
        /\ MayCheckIn(p)
        /\ registrations[req[p].rid].checkedIn)
         => resp'[p] = AlreadyCheckedInReply /\ StoreUnchanged]_vars

\* the second check-in of a registration that the first one checked in
C7_Witness ==
  \E p \in Procs :
    /\ pc[p] = "done" /\ MayCheckIn(p) /\ resp[p] = AlreadyCheckedInReply
    /\ registrations[req[p].rid].checkedIn
    /\ IsSet(registrations[req[p].rid].checkInTime)

CheckedInReply == Reply(200, "Participant checked in successfully")

\* C8: a registration is checked in at most once also when two
\* checkInParticipant requests interleave: at most one of them reports
\* success, and checkInTime, once set, is never overwritten.
C8_CheckedInAtMostOnce ==
  [][/\ \A p, q \in Procs :
          (/\ p # q
           /\ pc'[p] = "done" /\ pc'[q] = "done"
           /\ req'[p].op = "checkin" /\ req'[q].op = "checkin"
           /\ req'[p].rid = req'[q].rid)
            => ~(resp'[p] = CheckedInReply /\ resp'[q] = CheckedInReply)
     /\ \A i \in DOMAIN registrations :
          IsSet(registrations[i].checkInTime)
            => registrations'[i].checkInTime = registrations[i].checkInTime]_vars

\* C9: neither checkedIn nor projectSubmitted changes from false to true
\* on a registration whose status is 'cancelled'.
C9_NoCheckInOrSubmitWhenCancelled ==
  [][\A i \in DOMAIN registrations :
       registrations[i].status = "cancelled"
         => /\ registrations'[i].checkedIn => registrations[i].checkedIn
            /\ registrations'[i].projectSubmitted => registrations[i].projectSubmitted]_vars

\* C10: for every stored registration, checkInTime is set iff checkedIn is
\* true, and projectDetails is set iff projectSubmitted is true.
C10_FlagsMatchDetails ==
  \A i \in DOMAIN registrations :
    /\ IsSet(registrations[i].checkInTime) <=> registrations[i].checkedIn
    /\ IsSet(registrations[i].projectDetails) <=> registrations[i].projectSubmitted

AlreadyCancelledReply == Reply(400, "Registration is already cancelled")

PastDeadlineReply ==
  Reply(400, "Cannot cancel registration within 24 hours of hackathon start time")

\* C11: cancelRegistration by the registrant sets the status to 'cancelled'
\* if and only if the registration is not already cancelled and
\* now < startDate - 24h; an already-cancelled registration is rejected as
\* already cancelled, a non-cancelled one at now >= startDate - 24h as past
\* the cancellation deadline.
C11_CancelSucceedsIffAllowed ==
  [][\A p \in Procs :
       /\ (/\ pc[p] = "idle" /\ req'[p].op = "cancel"
           /\ req'[p].rid \in DOMAIN registrations
           /\ registrations[req'[p].rid].user = req'[p].user
           /\ registrations[req'[p].rid].status = "cancelled")
            => resp'[p] = AlreadyCancelledReply /\ StoreUnchanged
       /\ (/\ pc[p] = "can_findHackathon" /\ pc'[p] # pc[p]
           /\ doc[p].hackathon \in DOMAIN hackathons)
            => IF now + CancellationWindow >= hackathons[doc[p].hackathon].startDate
                 THEN resp'[p] = PastDeadlineReply /\ StoreUnchanged
                 ELSE pc'[p] = "can_save"
       /\ (pc[p] = "can_save" /\ pc'[p] # pc[p])
            => registrations'[doc[p].id].status = "cancelled"]_vars

\* the cancellation rule at the moment a handler evaluates it
CancellationAllowed(h) ==
  h \in DOMAIN hackathons /\ now + CancellationWindow < hackathons[h].startDate

\* C12: every transition of a registration into 'cancelled' is guarded by
\* the cancellation rule: no request, updateRegistration with
\* status = 'cancelled' in its body included, goes on to store 'cancelled'
\* when now >= startDate - 24h at its test.
C12_CancelledOnlyWithinRule ==
  [][/\ \A p \in Procs :
          /\ (pc[p] = "can_findHackathon" /\ pc'[p] = "can_save")
               => CancellationAllowed(doc[p].hackathon)
          /\ (/\ pc[p] = "upd_findHackathon" /\ pc'[p] = "upd_write"
              /\ req[p].body.status = Some("cancelled"))
               => CancellationAllowed(doc[p].hackathon)
     /\ \A i \in DOMAIN registrations :
          (registrations[i].status # "cancelled" /\ registrations'[i].status = "cancelled")
            => \E p \in Procs : pc[p] \in {"can_save", "upd_write"} /\ pc'[p] # pc[p]]_vars

UpdateCancelledReply == Reply(400, "Cannot update cancelled registration")

UpdateStartedReply ==
  Reply(400, "Cannot update registration after hackathon has started")

\* C13: updateRegistration by the registrant is rejected when the
\* registration is cancelled (tested first) and rejected when
\* now >= startDate; it goes on to its write only when the registration is
\* not cancelled and now < startDate, and a rejection writes nothing.
C13_UpdateRejectedWhenCancelledOrStarted ==
  [][\A p \in Procs :
       (/\ pc[p] = "upd_findHackathon" /\ pc'[p] # pc[p]
        /\ registrations[req[p].rid].hackathon \in DOMAIN hackathons)
         => LET r == registrations[req[p].rid]
                h == hackathons[r.hackathon]
            IN /\ r.status = "cancelled"
                    => resp'[p] = UpdateCancelledReply /\ StoreUnchanged
               /\ (r.status # "cancelled" /\ ~(now < h.startDate))
                    => resp'[p] = UpdateStartedReply /\ StoreUnchanged
               /\ (r.status # "cancelled" /\ now < h.startDate)
                    <=> pc'[p] = "upd_write"]_vars

\* an update of a non-cancelled registration is rejected at now = startDate
C13_Witness ==
  \E p \in Procs :
    /\ pc[p] = "done" /\ req[p].op = "update" /\ resp[p] = UpdateStartedReply
    /\ registrations[req[p].rid].status # "cancelled"
    /\ now = hackathons[registrations[req[p].rid].hackathon].startDate

AlreadySubmittedReply == Reply(400, "Project already submitted")

BeforeStartSubmitReply == Reply(400, "Cannot submit project before hackathon starts")

\* C14: submitProject by the registrant is rejected when projectSubmitted
\* is already true and rejected when now < startDate, writing nothing; once
\* a project is submitted, no step of a later submitProject request changes
\* projectDetails (submissionTime included).
C14_SubmittedOnceAfterStart ==
  [][/\ \A p \in Procs :
          (/\ pc[p] = "sub_populate" /\ pc'[p] # pc[p]
           /\ registrations[req[p].rid].user = req[p].user
           /\ registrations[req[p].rid].hackathon \in DOMAIN hackathons)
            => LET r == registrations[req[p].rid]
                   h == hackathons[r.hackathon]
               IN /\ r.projectSubmitted
                       => resp'[p] = AlreadySubmittedReply /\ StoreUnchanged
                  /\ (~r.projectSubmitted /\ now < h.startDate)
                       => resp'[p] = BeforeStartSubmitReply /\ StoreUnchanged
                  /\ pc'[p] = "sub_save"
                       => ~r.projectSubmitted /\ now >= h.startDate
     /\ \A i \in DOMAIN registrations :
          (/\ registrations[i].projectSubmitted
           /\ \E p \in Procs : req'[p].op = "submit" /\ pc'[p] # pc[p])
            => /\ registrations'[i].projectSubmitted
               /\ registrations'[i].projectDetails = registrations[i].projectDetails]_vars

\* a second submission, with another title, of a project that was submitted
\* is rejected and the stored details are those of the first
C14_Witness ==
  \E p \in Procs :
    /\ pc[p] = "done" /\ req[p].op = "submit" /\ resp[p] = AlreadySubmittedReply
    /\ registrations[req[p].rid].projectSubmitted
    /\ IsSet(registrations[req[p].rid].projectDetails)
    /\ registrations[req[p].rid].projectDetails[1].title # req[p].body.title[1]

\* 1 for solo, teamMembers.length + 1 for team
EffectiveTeamSize(r) ==
  IF r.participationType = "team" THEN r.teamMembers + 1 ELSE 1

\* C15: every stored registration's effective team size lies within
\* [teamSizeMin, teamSizeMax] of the hackathon it references.
C15_TeamSizeWithinBounds ==
  \A i \in DOMAIN registrations :
    registrations[i].hackathon \in DOMAIN hackathons
      => /\ EffectiveTeamSize(registrations[i])
              >= hackathons[registrations[i].hackathon].teamSizeMin
         /\ EffectiveTeamSize(registrations[i])
              <= hackathons[registrations[i].hackathon].teamSizeMax

TeamSizeError == "Team size must be between teamSizeMin and teamSizeMax members"

\* the effective team size a request body asks for
RequestedTeamSize(body) ==
  IF OrElse(body.participationType, "solo") = "team"
    THEN OrElse(body.teamMembers, 0) + 1
    ELSE 1

\* the tests of the save hook that come before the team-size test
TeamDetailsGiven(body) ==
  OrElse(body.participationType, "solo") = "team"
    => /\ OrElse(body.teamName, "") \notin {"", " "}
       /\ OrElse(body.teamMembers, 0) >= 1

\* C16: creating a registration whose effective team size is below
\* teamSizeMin or above teamSizeMax is denied and persists nothing; the
\* denial carries the team-size error when the hook's earlier tests (team
\* details, registration window) pass, and the team-size error is never
\* given for a size within the bounds.
C16_TeamSizeDenial ==
  [][\A p \in Procs :
       /\ (/\ pc[p] = "reg_preSave" /\ pc'[p] # pc[p]
           /\ req[p].hid \in DOMAIN hackathons)
            => LET h == hackathons[req[p].hid]
                   n == RequestedTeamSize(req[p].body)
               IN /\ (n < h.teamSizeMin \/ n > h.teamSizeMax)
                       => pc'[p] = "done" /\ resp'[p].status = 500 /\ StoreUnchanged
                  /\ (/\ n < h.teamSizeMin \/ n > h.teamSizeMax
                      /\ TeamDetailsGiven(req[p].body) /\ WindowOpen(h, now))
                       => resp'[p].error = TeamSizeError
                  /\ (n >= h.teamSizeMin /\ n <= h.teamSizeMax)
                       => resp'[p].error # TeamSizeError
       /\ (/\ pc[p] = "reg_insert" /\ Len(registrations') > Len(registrations)
           /\ req[p].hid \in DOMAIN hackathons)
            => /\ RequestedTeamSize(req[p].body) >= hackathons[req[p].hid].teamSizeMin
               /\ RequestedTeamSize(req[p].body) <= hackathons[req[p].hid].teamSizeMax]_vars

\* a solo registration for a hackathon with teamSizeMin = 2 was denied with
\* the team-size error and nothing was stored
C16_Witness ==
  \E p \in Procs :
    /\ pc[p] = "done" /\ req[p].op = "register" /\ resp[p].error = TeamSizeError
    /\ RequestedTeamSize(req[p].body) = 1
    /\ hackathons[req[p].hid].teamSizeMin = 2
    /\ registrations = << >>

\* C17: every stored registration has agreeToTerms = true and
\* agreeToCodeOfConduct = true.
C17_ConsentAlwaysGiven ==
  \A i \in DOMAIN registrations :
    registrations[i].agreeToTerms /\ registrations[i].agreeToCodeOfConduct

\* C18: every registration that registerForHackathon stores has status
\* 'confirmed' when it is stored, whatever status the request body carries.
C18_CreatedAsConfirmed ==
  [][\A p \in Procs :
       (pc[p] = "reg_insert" /\ Len(registrations') > Len(registrations))
         => registrations'[Len(registrations')].status = "confirmed"]_vars

\* a registration created from a body that asks for status 'pending'
C18_Witness ==
  \E p \in Procs :
    /\ pc[p] = "done" /\ req[p].op = "register" /\ resp[p].status = 201
    /\ req[p].body.status = Some("pending")
    /\ \E i \in DOMAIN registrations :
         /\ registrations[i].user = req[p].user
         /\ registrations[i].hackathon = req[p].hid
         /\ registrations[i].status = "confirmed"

DuplicateReply == Reply(400, "You are already registered for this hackathon")

\* C19: registerForHackathon gives the duplicate-registration denial for a
\* (hackathon, user) pair exactly when a non-cancelled registration exists
\* for the pair; a cancelled registration alone does not produce it.
C19_DuplicateDenialIffActive ==
  [][\A p \in Procs :
       (pc[p] = "reg_findExisting" /\ pc'[p] # pc[p])
         => (resp'[p] = DuplicateReply
               <=> \E i \in DOMAIN registrations :
                     /\ registrations[i].hackathon = req[p].hid
                     /\ registrations[i].user = req[p].user
                     /\ registrations[i].status # "cancelled")]_vars

\* the validity rules of a hackathon
ValidHackathon(h) ==
  /\ h.startDate < h.endDate
  /\ h.registrationDeadline < h.startDate
  /\ h.teamSizeMin <= h.teamSizeMax
  /\ h.judgingCriteria # << >> => SumWeights(h.judgingCriteria) = 100

\* C20: every stored hackathon satisfies the validity rules (a create,
\* draft save, publish or update that would break one of them is rejected
\* and leaves the store as it was).
C20_StoredHackathonsValid ==
  \A id \in DOMAIN hackathons : ValidHackathon(hackathons[id])

\* the part of the rules that create, draft save and publish keep: a step
\* of one of them leaves every valid stored hackathon valid and adds only
\* valid ones
CreateAndPublishKeepValid ==
  [][\A p \in Procs :
       (req'[p].op \in {"create", "draft", "publish"} /\ pc'[p] # pc[p])
         => \A id \in DOMAIN hackathons' :
              (id \in DOMAIN hackathons => ValidHackathon(hackathons[id]))
                => ValidHackathon(hackathons'[id])]_vars

\* C21: every hackathon is stored with status 'draft' by the request that
\* creates it, createHackathon as well as saveDraft.
C21_CreatedAsDraft ==
  [][\A id \in DOMAIN hackathons' :
       id \notin DOMAIN hackathons => hackathons'[id].status = "draft"]_vars

\* C22: a hackathon whose stored status is 'completed' or 'cancelled' is
\* never re-opened: no request changes its status to 'draft', 'published'
\* or 'ongoing'.
C22_TerminalStatusNotReopened ==
  [][\A id \in DOMAIN hackathons \cap DOMAIN hackathons' :
       hackathons[id].status \in {"completed", "cancelled"}
         => hackathons'[id].status \notin {"draft", "published", "ongoing"}]_vars

\* C23: the statistics of a hackathon give total = number of its
\* registrations, a count of checked-in, submitted, solo and team
\* registrations, and per-status counts that sum to total (every
\* registration is in exactly one status bucket); all counts are 0 for a
\* hackathon without registrations.
C23_StatsPartitionTotal ==
  \A p \in Procs :
    (pc[p] = "done" /\ req[p].op = "stats" /\ resp[p].status = 200)
      => LET s == resp[p].stats[1]
             regs == {i \in DOMAIN registrations : registrations[i].hackathon = req[p].hid}
         IN /\ s.total = Cardinality(regs)
            /\ s.confirmed + s.pending + s.cancelled = s.total
            /\ s.soloParticipants + s.teamParticipants = s.total
            /\ s.checkedIn = Cardinality({i \in regs : registrations[i].checkedIn})
            /\ s.projectsSubmitted = Cardinality({i \in regs : registrations[i].projectSubmitted})
            /\ regs = {} => s.confirmed = 0 /\ s.checkedIn = 0 /\ s.soloParticipants = 0

\* the errors with which the save hook of a registration rejects a save
HookErrors ==
  { "Team name is required for team participation",
    "At least one team member is required for team participation",
    "Hackathon not found",
    "Registration is not available for this hackathon",
    TeamSizeError,
    "Must agree to terms and conditions and code of conduct" }

\* a reply that denies the request: an eligibility, not-found or
\* authorization check failed, in the handler or in the save hook
Denied(r) ==
  \/ r.status \in {400, 403, 404}
  \/ r.status = 500 /\ r.error \in HookErrors

\* where a request stands while it has not yet sent a write to the store
BeforeWrite ==
  {"reg_findExisting", "reg_preSave", "can_findHackathon", "upd_findHackathon",
   "chk_populate", "sub_populate"}

\* where a request stands when its next step is its first write
AtFirstWrite == {"reg_insert", "can_save", "upd_write", "chk_save", "sub_save"}

RegistrationOps == {"register", "update", "cancel", "checkin", "submit"}

\* C24: a denied registerForHackathon, updateRegistration,
\* cancelRegistration, checkInParticipant or submitProject leaves the
\* registrations and the hackathons as they were before the request: the
\* step that denies writes nothing, and no step of the request before it
\* has written.
C24_DeniedRequestChangesNothing ==
  [][\A p \in Procs :
       (pc'[p] # pc[p] /\ req'[p].op \in RegistrationOps)
         => /\ pc[p] \in BeforeWrite \cup {"idle"} => StoreUnchanged
            /\ pc'[p] \in BeforeWrite \cup AtFirstWrite
                 => pc[p] \in BeforeWrite \cup {"idle"}
            /\ (pc'[p] = "done" /\ Denied(resp'[p]))
                 => /\ pc[p] \in BeforeWrite \cup AtFirstWrite \cup {"idle"}
                    /\ StoreUnchanged]_vars

\* a cancellation that the save hook rejected: the registration and the
\* count are what they were
C24_Witness ==
  \E p \in Procs :
    /\ pc[p] = "done" /\ req[p].op = "cancel" /\ Denied(resp[p])
    /\ resp[p].status = 500
    /\ registrations[req[p].rid].status = "confirmed"
    /\ hackathons[registrations[req[p].rid].hackathon].registrationCount = 1

\* C25: for every hackathon the number of its registrations that are not
\* cancelled never exceeds its maxParticipants, also when register requests
\* of different users interleave.
C25_CapacityNeverExceeded ==
  \A h \in DOMAIN hackathons :
    Cardinality(ActiveRegistrations(h)) <= hackathons[h].maxParticipants

\* C26: registerForHackathon is all-or-nothing: a request that ends in any
\* reply other than 201 has persisted no registration; its failing step is
\* taken before the request's insert and stores nothing.
C26_RegisterAllOrNothing ==
  [][\A p \in Procs :
       (pc'[p] = "done" /\ pc[p] # "done" /\ req'[p].op = "register"
          /\ resp'[p].status # 201)
         => /\ registrations' = registrations
            /\ pc[p] \in {"idle", "reg_findExisting", "reg_preSave", "reg_insert"}]_vars

\* C27: checkedIn of a stored registration becomes true only by a
\* checkInParticipant request of the hackathon's organizer or of an admin;
\* no other request stores a registration with checkedIn = true.
C27_CheckedInOnlyByOrganizer ==
  [][\A i \in DOMAIN registrations' :
       (/\ registrations'[i].checkedIn
        /\ i \in DOMAIN registrations => ~registrations[i].checkedIn)
         => \E p \in Procs :
              /\ pc'[p] # pc[p]
              /\ req[p].op = "checkin"
              /\ req[p].rid = i
              /\ \/ req[p].role = "admin"
                 \/ req[p].user = hackathons[registrations[i].hackathon].createdBy]_vars

\* C28: every registration that is not cancelled references a hackathon
\* that still exists, also when a deleteHackathon interleaves with a
\* registerForHackathon that has passed its hackathon-exists and
\* canRegister checks.
C28_ActiveRegistrationHasHackathon ==
  \A i \in DOMAIN registrations :
    registrations[i].status # "cancelled"
      => registrations[i].hackathon \in DOMAIN hackathons

\* C29: no registration is created at or after the start of its hackathon:
\* whenever the save of a new registration passes its last check of the
\* time (canRegister in the save hook) and goes on to insert the record,
\* now is before the startDate that is stored for the hackathon.
C29_NoRegistrationAfterStart ==
  [][\A p \in Procs :
       (pc[p] = "reg_preSave" /\ pc'[p] = "reg_insert")
         => /\ req[p].hid \in DOMAIN hackathons
            /\ now < hackathons[req[p].hid].startDate]_vars

\* the registration carries the mark and the time stamp that checkIn() sets
CheckedInByOrganizer(r) == r.checkedIn /\ IsSet(r.checkInTime)

\* C30: while the startDate of its hackathon is not changed and the clock
\* does not run backwards, a registration that checkInParticipant has
\* checked in is never afterwards cancelled by cancelRegistration or
\* modified by updateRegistration: no step of such a request changes it.
C30_CheckedInStaysAsIs ==
  [][\A i \in DOMAIN registrations :
       CheckedInByOrganizer(registrations[i])
         => \A p \in Procs :
              (pc'[p] # pc[p] /\ req'[p].op \in {"cancel", "update"})
                => registrations'[i] = registrations[i]]_vars

\* a cancellation and an update of a checked-in registration were refused
C30_Witness ==
  \E p \in Procs :
    /\ pc[p] = "done"
    /\ resp[p] \in {PastDeadlineReply, UpdateStartedReply}
    /\ CheckedInByOrganizer(registrations[req[p].rid])
    /\ registrations[req[p].rid].status = "confirmed"

====
